---------------------------- MODULE Spec2Model ----------------------------
(***************************************************************************)
(* Model of src/app.py: a Streamlit page that owns a paho-mqtt client.     *)
(*                                                                         *)
(* Two execution contexts share st.session_state.sensor_data:              *)
(*   - the transport thread started by client.loop_start(), which runs     *)
(*     the callbacks on_connect and on_message one at a time;              *)
(*   - the script thread, which reruns the page top to bottom and copies   *)
(*     the series into a DataFrame (Dashboard and History panels).         *)
(* on_message is modelled line by line (one step per statement of its try  *)
(* body), because the script thread can run between any two statements.    *)
(***************************************************************************)
EXTENDS Integers, Sequences, FiniteSets

(* The deques are created with maxlen=100 (src/app.py:25-27).  The model   *)
(* keeps the same eviction rule with a small capacity so that overflow is  *)
(* reached within the explored runs.                                       *)
maxlen == 3

(* Number of datetime.now() readings explored: enough to overflow a deque. *)
MaxMsgs == maxlen + 1

MQTT_TOPIC == "sensores/temperatura-humedad"

(* CONNACK return codes of MQTT 3.1.1; 0 is "connection accepted".         *)
RC == 0 .. 5

(* Readings a publisher may send.                                          *)
Values == {21, 55}

(* Keys a payload object may carry: the two the handler reads and their    *)
(* lower-case variants.                                                    *)
Keys == {"Temperatura", "Humedad", "temperatura", "humedad"}

NoFields == [k \in {} |-> 0]

(* msg.payload as json.loads sees it: bytes that are not JSON, a JSON      *)
(* value that is not an object (list, number, string, null), or an object. *)
InvalidPayload == [kind |-> "invalid", fields |-> NoFields]

NonObjectPayload == [kind |-> "nonobject", fields |-> NoFields]

Object(f) == [kind |-> "object", fields |-> f]

(* Objects explored: each metric absent or present under one spelling.     *)
KeySets ==
    {S \in SUBSET Keys :
        /\ Cardinality(S \cap {"Temperatura", "temperatura"}) <= 1
        /\ Cardinality(S \cap {"Humedad", "humedad"}) <= 1}

ObjectPayloads == {Object(f) : f \in UNION {[S -> Values] : S \in KeySets}}

Payloads == {InvalidPayload, NonObjectPayload} \cup ObjectPayloads

(* Payloads of the runs that interleave the script thread with on_message. *)
RacePayloads ==
    {InvalidPayload, NonObjectPayload,
     Object([k \in {"Temperatura", "Humedad"} |-> 21])}

NoPayload == [kind |-> "none", fields |-> NoFields]

Endpoints == {"Dashboard", "Current Values", "History"}

VARIABLES
    temp_data,     \* sensor_data['temp_data']
    hum_data,      \* sensor_data['hum_data']
    timestamps,    \* sensor_data['timestamps']
    last_temp,     \* sensor_data['last_temp']
    last_hum,      \* sensor_data['last_hum']
    connected,     \* sensor_data['connected']
    conn,          \* the transport's connection to the broker
    loop_started,  \* client.loop_start() has run
    subs,          \* subscribe requests issued on the latest connection
    pc,            \* on_message: "idle" or the line about to run
    payload,       \* on_message local: the message being (last) handled
    timestamp,     \* on_message local
    now,           \* readings of datetime.now() taken so far
    log,           \* history: the sample of every decoded message, in order
    rpc,           \* script thread position
    endpoint,      \* sidebar radio selection of this rerun
    df_ts,         \* list(sensor_data['timestamps']) taken by the panel
    df_temp,       \* list(sensor_data['temp_data'])
    df_hum         \* list(sensor_data['hum_data'])

data == <<temp_data, hum_data, timestamps, last_temp, last_hum>>

msgvars == <<pc, payload, timestamp, now, log>>

connvars == <<connected, conn, loop_started, subs>>

readervars == <<rpc, endpoint, df_ts, df_temp, df_hum>>

vars == <<data, msgvars, connvars, readervars>>

(* An append that never evicts (maxlen forgotten).                         *)
deque_append_unbounded(d, x) == Append(d, x)

(* collections.deque(maxlen=n).append: when full, the oldest entry (left   *)
(* end) is discarded.                                                      *)
deque_append(d, x) ==
    IF Len(d) = maxlen THEN Append(Tail(d), x) ELSE Append(d, x)

(* dict.get(key, default): exact key match.                                *)
get(d, key, default) == IF key \in DOMAIN d THEN d[key] ELSE default

Init ==
    /\ temp_data = <<>>
    /\ hum_data = <<>>
    /\ timestamps = <<>>
    /\ last_temp = 0
    /\ last_hum = 0
    /\ connected = FALSE
    /\ conn = "init"
    /\ loop_started = FALSE
    /\ subs = <<>>
    /\ pc = "idle"
    /\ payload = NoPayload
    /\ timestamp = 0
    /\ now = 0
    /\ log = <<>>
    /\ rpc = "top"
    /\ endpoint = "Dashboard"
    /\ df_ts = <<>>
    /\ df_temp = <<>>
    /\ df_hum = <<>>

---------------------------------------------------------------------------
(* Connection lifecycle.                                                   *)

(* get_mqtt_client, run once (st.cache_resource): client.connect either    *)
(* raises, and then loop_start is skipped and the error is only displayed, *)
(* or succeeds and the network loop is started.                            *)
get_mqtt_client ==
    /\ conn = "init"
    /\ \E ok \in BOOLEAN :
        /\ conn' = IF ok THEN "connecting" ELSE "failed"
        /\ loop_started' = ok
    /\ UNCHANGED <<data, msgvars, connected, subs, readervars>>

(* A handler that also subscribes only when the flag was not already set.  *)
on_connect_subscribe_if_new(client, rc) ==
    /\ IF rc = 0
       THEN /\ connected' = TRUE
            /\ subs' = IF connected THEN client ELSE Append(client, MQTT_TOPIC)
       ELSE /\ connected' = FALSE
            /\ subs' = client
    /\ UNCHANGED data

(* A handler that blanks the latest values when the connection is refused. *)
on_connect_blanking(client, rc) ==
    /\ IF rc = 0
       THEN /\ connected' = TRUE
            /\ subs' = Append(client, MQTT_TOPIC)
            /\ UNCHANGED <<last_temp, last_hum>>
       ELSE /\ connected' = FALSE
            /\ subs' = client
            /\ last_temp' = 0
            /\ last_hum' = 0
    /\ UNCHANGED <<temp_data, hum_data, timestamps>>

(* on_connect(client, userdata, flags, rc); client is given here as the    *)
(* subscribe requests already issued on this connection.  The handler      *)
(* writes sensor_data['connected'] and nothing else of sensor_data.        *)
on_connect(client, rc) ==
    /\ IF rc = 0
       THEN /\ connected' = TRUE
            /\ subs' = Append(client, MQTT_TOPIC)
       ELSE /\ connected' = FALSE
            /\ subs' = client
    /\ UNCHANGED data

(* The network loop receives CONNACK and calls on_connect.  A refused      *)
(* connection is closed by the broker.                                     *)
ConnAck ==
    /\ loop_started
    /\ conn = "connecting"
    /\ pc = "idle"
    /\ \E rc \in RC :
        /\ on_connect(<<>>, rc)
        /\ conn' = IF rc = 0 THEN "up" ELSE "refused"
    /\ UNCHANGED <<msgvars, loop_started, readervars>>

(* The connection drops.  get_mqtt_client registers on_connect and         *)
(* on_message only: no callback runs on a disconnect.                      *)
ConnectionLost ==
    /\ loop_started
    /\ conn \in {"connecting", "up"}
    /\ pc = "idle"
    /\ conn' = "lost"
    /\ UNCHANGED <<data, msgvars, connected, loop_started, subs, readervars>>

(* The network loop started by loop_start reconnects after a refused or    *)
(* lost connection.  It only runs if loop_start was reached.               *)
Reconnect ==
    /\ loop_started
    /\ conn \in {"refused", "lost"}
    /\ conn' = "connecting"
    /\ UNCHANGED <<data, msgvars, connected, loop_started, subs, readervars>>

---------------------------------------------------------------------------
(* on_message(client, userdata, msg), one step per statement.  Messages    *)
(* are delivered by the network loop while the connection is up and the    *)
(* topic is subscribed.  An exception anywhere in the try body is caught   *)
(* by "except Exception" (st.error displays it) and the handler returns.   *)

Sample(p, ts) ==
    [temp |-> get(p.fields, "Temperatura", 0),
     hum |-> get(p.fields, "Humedad", 0),
     ts |-> ts]

(* Lines 44-45: json.loads(msg.payload.decode()) raises on bytes that are  *)
(* not JSON; otherwise the receipt time is read.                           *)
on_message_44(raw) ==
    /\ pc = "idle"
    /\ loop_started
    /\ conn = "up"
    /\ subs # <<>>
    /\ payload' = raw
    /\ IF raw.kind = "invalid"
       THEN /\ pc' = "idle"
            /\ UNCHANGED <<timestamp, now, log>>
       ELSE /\ now < MaxMsgs
            /\ timestamp' = now + 1
            /\ now' = now + 1
            /\ log' = IF raw.kind = "object"
                      THEN Append(log, Sample(raw, now + 1))
                      ELSE log
            /\ pc' = "l48"
    /\ UNCHANGED <<data, connvars, readervars>>

(* A handler that appends before it looks the key up.                      *)
on_message_48_append_first ==
    /\ pc = "l48"
    /\ temp_data' =
         deque_append(temp_data, get(payload.fields, "Temperatura", 0))
    /\ pc' = IF payload.kind = "object" THEN "l49" ELSE "idle"
    /\ UNCHANGED <<hum_data, timestamps, last_temp, last_hum>>
    /\ UNCHANGED <<payload, timestamp, now, log, connvars, readervars>>

(* Line 48: payload.get raises AttributeError when payload is not a dict,  *)
(* before anything is appended.                                            *)
on_message_48 ==
    /\ pc = "l48"
    /\ IF payload.kind = "object"
       THEN /\ temp_data' =
                deque_append(temp_data, get(payload.fields, "Temperatura", 0))
            /\ pc' = "l49"
       ELSE /\ pc' = "idle"
            /\ UNCHANGED temp_data
    /\ UNCHANGED <<hum_data, timestamps, last_temp, last_hum>>
    /\ UNCHANGED <<payload, timestamp, now, log, connvars, readervars>>

on_message_49 ==
    /\ pc = "l49"
    /\ hum_data' = deque_append(hum_data, get(payload.fields, "Humedad", 0))
    /\ pc' = "l50"
    /\ UNCHANGED <<temp_data, timestamps, last_temp, last_hum>>
    /\ UNCHANGED <<payload, timestamp, now, log, connvars, readervars>>

on_message_50 ==
    /\ pc = "l50"
    /\ timestamps' = deque_append(timestamps, timestamp)
    /\ pc' = "l51"
    /\ UNCHANGED <<temp_data, hum_data, last_temp, last_hum>>
    /\ UNCHANGED <<payload, timestamp, now, log, connvars, readervars>>

(* A handler whose line 51 reads the humidity key.                         *)
on_message_51_wrong_key ==
    /\ pc = "l51"
    /\ last_temp' = get(payload.fields, "Humedad", 0)
    /\ pc' = "l52"
    /\ UNCHANGED <<temp_data, hum_data, timestamps, last_hum>>
    /\ UNCHANGED <<payload, timestamp, now, log, connvars, readervars>>

on_message_51 ==
    /\ pc = "l51"
    /\ last_temp' = get(payload.fields, "Temperatura", 0)
    /\ pc' = "l52"
    /\ UNCHANGED <<temp_data, hum_data, timestamps, last_hum>>
    /\ UNCHANGED <<payload, timestamp, now, log, connvars, readervars>>

(* A handler that keeps the previous value when the key is missing.        *)
on_message_52_keep_previous ==
    /\ pc = "l52"
    /\ last_hum' = get(payload.fields, "Humedad", last_hum)
    /\ pc' = "idle"
    /\ UNCHANGED <<temp_data, hum_data, timestamps, last_temp>>
    /\ UNCHANGED <<payload, timestamp, now, log, connvars, readervars>>

on_message_52 ==
    /\ pc = "l52"
    /\ last_hum' = get(payload.fields, "Humedad", 0)
    /\ pc' = "idle"
    /\ UNCHANGED <<temp_data, hum_data, timestamps, last_temp>>
    /\ UNCHANGED <<payload, timestamp, now, log, connvars, readervars>>

on_message_body ==
    \/ on_message_48
    \/ on_message_49
    \/ on_message_50
    \/ on_message_51
    \/ on_message_52

---------------------------------------------------------------------------
(* The script thread: one rerun of the page after the client exists.       *)

(* Lines 75-78: the sidebar radio gives this rerun's endpoint.             *)
select_endpoint ==
    /\ rpc = "top"
    /\ conn # "init"
    /\ \E e \in Endpoints : endpoint' = e
    /\ rpc' = "panel"
    /\ UNCHANGED <<data, msgvars, connvars, df_ts, df_temp, df_hum>>

(* Lines 136 and 174: the panel builds a DataFrame only if its guard sees  *)
(* data; "Current Values" reads last_temp and last_hum only.               *)
panel_guard ==
    /\ rpc = "panel"
    /\ rpc' = CASE endpoint = "Dashboard" ->
                     IF Len(temp_data) > 0 THEN "copy_ts" ELSE "rerun"
                [] endpoint = "History" ->
                     IF Len(timestamps) > 0 THEN "copy_ts" ELSE "rerun"
                [] OTHER -> "rerun"
    /\ UNCHANGED <<data, msgvars, connvars, endpoint, df_ts, df_temp, df_hum>>

(* Lines 138-140 and 176-178: the dict literal is evaluated in order, one  *)
(* list(deque) copy at a time.                                             *)
copy_timestamps ==
    /\ rpc = "copy_ts"
    /\ df_ts' = timestamps
    /\ rpc' = "copy_temp"
    /\ UNCHANGED <<data, msgvars, connvars, endpoint, df_temp, df_hum>>

copy_temp_data ==
    /\ rpc = "copy_temp"
    /\ df_temp' = temp_data
    /\ rpc' = "copy_hum"
    /\ UNCHANGED <<data, msgvars, connvars, endpoint, df_ts, df_hum>>

copy_hum_data ==
    /\ rpc = "copy_hum"
    /\ df_hum' = hum_data
    /\ rpc' = "built"
    /\ UNCHANGED <<data, msgvars, connvars, endpoint, df_ts, df_temp>>

(* Lines 194-195: st.experimental_rerun() restarts the script; the copies  *)
(* of the finished run are dropped.                                        *)
rerun ==
    /\ rpc \in {"rerun", "built"}
    /\ rpc' = "top"
    /\ df_ts' = <<>>
    /\ df_temp' = <<>>
    /\ df_hum' = <<>>
    /\ UNCHANGED <<data, msgvars, connvars, endpoint>>

script_run ==
    \/ select_endpoint
    \/ panel_guard
    \/ copy_timestamps
    \/ copy_temp_data
    \/ copy_hum_data
    \/ rerun

---------------------------------------------------------------------------
transport ==
    \/ get_mqtt_client
    \/ ConnAck
    \/ ConnectionLost
    \/ Reconnect

(* The transport thread alone, over every payload.                         *)
Next ==
    \/ transport
    \/ \E raw \in Payloads : on_message_44(raw)
    \/ on_message_body

Spec == Init /\ [][Next]_vars

(* The transport thread interleaved with the script thread.                *)
NextR ==
    \/ transport
    \/ \E raw \in RacePayloads : on_message_44(raw)
    \/ on_message_body
    \/ script_run

SpecR == Init /\ [][NextR]_vars

(* The network loop thread keeps running once started: a pending CONNACK   *)
(* is handled and a dropped connection is retried.  The first connect is   *)
(* attempted when the page is first run, and the page reruns itself        *)
(* forever (lines 194-195).                                                *)
FairSpec ==
    /\ Init
    /\ [][NextR]_vars
    /\ WF_vars(get_mqtt_client)
    /\ WF_vars(Reconnect)
    /\ WF_vars(ConnAck)
    /\ WF_vars(script_run)

---------------------------------------------------------------------------
(* Properties.                                                             *)

Last(s) == s[Len(s)]

(* The last n entries of s, in order.                                      *)
LastN(s, n) == IF Len(s) <= n THEN s ELSE SubSeq(s, Len(s) - n + 1, Len(s))

Temps(l) == [i \in 1 .. Len(l) |-> l[i].temp]

Hums(l) == [i \in 1 .. Len(l) |-> l[i].hum]

Stamps(l) == [i \in 1 .. Len(l) |-> l[i].ts]

Malformed == {"invalid", "nonobject"}

(* C1: every series has at most maxlen entries in every state, and when    *)
(* no message is being handled each series is exactly the last maxlen      *)
(* samples of the decoded messages, in arrival order (oldest evicted       *)
(* first).                                                                 *)
C1_BoundedWindow ==
    /\ Len(temp_data) <= maxlen
    /\ Len(hum_data) <= maxlen
    /\ Len(timestamps) <= maxlen
    /\ pc = "idle" =>
        /\ temp_data = LastN(Temps(log), maxlen)
        /\ hum_data = LastN(Hums(log), maxlen)
        /\ timestamps = LastN(Stamps(log), maxlen)

(* More messages than the capacity were ingested and the oldest is gone.   *)
C1_Witness ==
    /\ pc = "idle"
    /\ Len(log) > maxlen
    /\ Len(temp_data) = maxlen
    /\ timestamps[1] = log[Len(log) - maxlen + 1].ts
    /\ log[1].temp # temp_data[1]

(* C2: a step of on_message that handles a payload which is not JSON or    *)
(* not a JSON object changes none of temp_data, hum_data, timestamps,      *)
(* last_temp, last_hum and connected, and the handler returns without      *)
(* reaching the statements after line 48.                                  *)
C2_MalformedNoChange ==
    [][(/\ payload'.kind \in Malformed
        /\ (pc # "idle" \/ pc' # "idle" \/ payload' # payload))
       => /\ UNCHANGED <<data, connected>>
          /\ pc' \in {"idle", "l48"}
          /\ pc = "l48" => pc' = "idle"]_vars

(* A malformed payload was handled after data had been ingested, the data  *)
(* is still there and a next message can be taken.                         *)
C2_Witness ==
    /\ pc = "idle"
    /\ payload.kind = "nonobject"
    /\ Len(temp_data) > 0
    /\ last_temp = 55
    /\ ENABLED (\E raw \in Payloads : on_message_44(raw))

(* The payload with every key in the spelling the publisher script uses.   *)
Capitalised(f) ==
    [k \in {IF j = "temperatura" THEN "Temperatura"
            ELSE IF j = "humedad" THEN "Humedad" ELSE j : j \in DOMAIN f} |->
        IF k \in DOMAIN f THEN f[k]
        ELSE IF k = "Temperatura" THEN f["temperatura"] ELSE f["humedad"]]

(* C3: a handled object gives the sample and latest values that the same   *)
(* object with capitalised keys gives (keys matched case-insensitively).   *)
C3_CaseInsensitive ==
    (pc = "idle" /\ payload.kind = "object") =>
        LET want == Sample(Object(Capitalised(payload.fields)), timestamp)
        IN  /\ Last(log) = want
            /\ Last(temp_data) = want.temp
            /\ Last(hum_data) = want.hum
            /\ last_temp = want.temp
            /\ last_hum = want.hum

(* C4: after an object is handled, a metric whose key is present has its   *)
(* value appended and as latest value, a metric whose key is missing has 0 *)
(* appended and as latest value, and one timestamp was appended per        *)
(* decoded message.                                                        *)
C4_MissingKeyDefault ==
    (pc = "idle" /\ payload.kind = "object") =>
        LET f == payload.fields
        IN  /\ "Temperatura" \in DOMAIN f =>
                (last_temp = f["Temperatura"] /\ Last(temp_data) = f["Temperatura"])
            /\ "Temperatura" \notin DOMAIN f =>
                (last_temp = 0 /\ Last(temp_data) = 0)
            /\ "Humedad" \in DOMAIN f =>
                (last_hum = f["Humedad"] /\ Last(hum_data) = f["Humedad"])
            /\ "Humedad" \notin DOMAIN f =>
                (last_hum = 0 /\ Last(hum_data) = 0)
            /\ Last(timestamps) = timestamp
            /\ Len(timestamps) = Len(LastN(log, maxlen))

(* Only the temperature key was present, after a message with humidity.    *)
C4_Witness ==
    /\ pc = "idle"
    /\ payload = Object([k \in {"Temperatura"} |-> 21])
    /\ last_temp = 21
    /\ last_hum = 0
    /\ Len(log) = 2
    /\ hum_data = <<55, 0>>
    /\ timestamps = <<1, 2>>

(* C5: the connected indicator is true exactly while the transport's       *)
(* connection is up.                                                       *)
C5_ConnectedReflectsLink == connected <=> conn = "up"

(* C6: when a panel has copied the three series, the copies are those of   *)
(* one point between whole messages: the last maxlen samples of a prefix   *)
(* of the decoded messages.                                                *)
C6_ConsistentSnapshot ==
    rpc = "built" =>
        \E n \in 0 .. Len(log) :
            LET seen == LastN(SubSeq(log, 1, n), maxlen)
            IN  /\ df_ts = Stamps(seen)
                /\ df_temp = Temps(seen)
                /\ df_hum = Hums(seen)

(* C7: after a failed, refused or lost connection a further connect        *)
(* attempt is eventually made.                                             *)
C7_EventuallyRetried == (conn \in {"failed", "refused", "lost"}) ~> (conn = "connecting")

(* C8: a step that changes the connection state (connect accepted or       *)
(* refused, connection lost, reconnect) leaves the series and the latest   *)
(* values unchanged.                                                       *)
C8_ConnectionKeepsData == [][conn' # conn => UNCHANGED data]_vars

(* Data was ingested, the connection dropped and the reconnect was         *)
(* refused: the values are still there.                                    *)
C8_Witness ==
    /\ conn = "refused"
    /\ ~connected
    /\ last_temp = 21
    /\ last_hum = 55
    /\ Len(temp_data) = maxlen

(* C9: while the connection is up after an accepted connect, connected is  *)
(* true and exactly one subscription to MQTT_TOPIC was issued on it; after *)
(* a refused connect connected is false and none was issued; whenever      *)
(* connected is true the latest accepted connection has its subscription.  *)
C9_SubscribedOnConnect ==
    /\ conn = "up" => (connected /\ subs = <<MQTT_TOPIC>>)
    /\ conn = "refused" => (~connected /\ subs = <<>>)
    /\ connected => subs = <<MQTT_TOPIC>>

(* A connection was accepted, its subscription issued, and messages of    *)
(* the topic are being delivered on it.                                    *)
C9_Witness ==
    /\ conn = "up"
    /\ connected
    /\ subs = <<MQTT_TOPIC>>
    /\ pc = "idle"
    /\ Len(log) > 0

(* C10: when no message is being handled the three series have the same    *)
(* length, and once a message was decoded the latest values are the last   *)
(* entries of their series.                                                *)
C10_AlignedSeries ==
    pc = "idle" =>
        /\ Len(temp_data) = Len(hum_data)
        /\ Len(hum_data) = Len(timestamps)
        /\ Len(log) > 0 =>
            (last_temp = Last(temp_data) /\ last_hum = Last(hum_data))

(* The window has overflowed and the latest values differ per metric.      *)
C10_Witness ==
    /\ pc = "idle"
    /\ Len(log) > maxlen
    /\ last_temp = 55
    /\ last_hum = 21
    /\ Last(temp_data) = 55
    /\ Last(hum_data) = 21

===========================================================================
